---- MODULE Spec2Model ----
(***************************************************************************)
(* A model of the Figma-to-HTML/CSS exporter.                              *)
(*                                                                         *)
(*   src/src/Components/Output/DownloadFiles.jsx                           *)
(*       generateHtmlFromFrame, generateCssFromFrame,                      *)
(*       shouldTreatAsSingleContainer and their helpers                    *)
(*   src/src/Components/Input/Input.jsx                                    *)
(*       handleSubmit and the helpers it calls                             *)
(*                                                                         *)
(* Strings are sequences of lexemes: a node id, a TEXT node's characters   *)
(* and an image URL are sequences of one-character strings, the literal    *)
(* parts of the source's template strings are longer lexemes, and string   *)
(* concatenation is \o.  The characters < > / and the double quote are     *)
(* always lexemes of their own, so a scan of the output sees them the same *)
(* whether a template or an interpolated value wrote them.                 *)
(*                                                                         *)
(* Lengths are integers counting 1/PxUnits of a pixel, so that             *)
(* coordinates can be fractional and Math.round has something to do.       *)
(***************************************************************************)
EXTENDS Integers, Sequences, FiniteSets, TLC

VARIABLES
    tree,        \* the frame node handed to the generators (a flat scene graph)
    imagesMap,   \* node id -> image URL, the generators' second argument
    html,        \* what the generateHtmlFromFrame calls so far returned, in order
    css,         \* what the generateCssFromFrame calls so far returned, in order
    zCounter,    \* generateCssFromFrame's stacking counter
    \* one generator call followed statement by statement
    run,         \* "idle", the generator running ("html" or "css"), or "done"
    work,        \* the calls of nodeToHtml / emitNode still to make, the next one last
    scan,        \* shouldTreatAsSingleContainer's loop: its state and its work stack
    out,         \* the pieces or rules written so far by the running call
    visits,      \* how often the running call has entered each node
    \* the Input component and one run of handleSubmit
    input,       \* the text in the input field
    token,       \* whether REACT_APP_FIGMA_TOKEN is set
    busy,        \* the busy flag (disables the button)
    pc,          \* where handleSubmit stands: "idle", the fetch it awaits, or "done"
    screens,     \* the ids of the screens to export, in order
    cur,         \* the index of the screen the loop is at
    fetches,     \* the fetches issued so far, each with its outcome
    alerts,      \* the alerts raised so far
    calls,       \* the generator calls handleSubmit made so far
    downloads    \* the files handed to saveAs so far

coreVars == <<tree, imagesMap, html, css, zCounter>>
stepVars == <<run, work, scan, out, visits>>
submitVars == <<input, token, busy, pc, screens, cur, fetches, alerts, calls, downloads>>
vars == <<coreVars, stepVars, submitVars>>

(***************************************************************************)
(* Bounds of the model.                                                    *)
(***************************************************************************)
MaxNodes == 3      \* nodes in a frame's tree
PxUnits == 2       \* a length unit is 1/PxUnits pixel

\* an absent absoluteBoundingBox
NoBox == [has |-> FALSE, x |-> 0, y |-> 0, width |-> 0, height |-> 0]

(***************************************************************************)
(* Generic helpers on sequences.                                           *)
(***************************************************************************)
RECURSIVE SeqOfSet(_)
SeqOfSet(S) ==
    IF S = {} THEN <<>>
    ELSE LET lo == CHOOSE x \in S : \A y \in S : x <= y
         IN  <<lo>> \o SeqOfSet(S \ {lo})

RECURSIVE Flatten(_)
Flatten(ss) == IF ss = <<>> THEN <<>> ELSE Head(ss) \o Flatten(Tail(ss))

Range(s) == {s[k] : k \in DOMAIN s}

(***************************************************************************)
(* px (line 2): a number becomes `${Math.round(v)}px`.  Math.round rounds  *)
(* to the nearest integer, halves upwards; the result is kept as the       *)
(* integer number of pixels.                                               *)
(***************************************************************************)
MathRound(v) == (2 * v + PxUnits) \div (2 * PxUnits)

px(v) == MathRound(v)

(***************************************************************************)
(* safeClass (line 21): "n_" followed by the id with every character       *)
(* outside [a-zA-Z0-9_-] replaced by "_".                                  *)
(***************************************************************************)
ClassChars ==
    {"a","b","c","d","e","f","g","h","i","j","k","l","m",
     "n","o","p","q","r","s","t","u","v","w","x","y","z",
     "A","B","C","D","E","F","G","H","I","J","K","L","M",
     "N","O","P","Q","R","S","T","U","V","W","X","Y","Z",
     "0","1","2","3","4","5","6","7","8","9","_","-"}

SanitizeChar(c) == IF c \in ClassChars THEN c ELSE "_"

safeClass(id) == <<"n", "_">> \o [k \in DOMAIN id |-> SanitizeChar(id[k])]

(***************************************************************************)
(* The node classes of lines 70, 250 and 254.                              *)
(***************************************************************************)
vectorish ==
    {"ELLIPSE", "VECTOR", "LINE", "STAR", "POLYGON", "BOOLEAN_OPERATION",
     "REGULAR_POLYGON", "ARROW"}

kind == {"GROUP", "COMPONENT", "INSTANCE", "COMPONENT_SET"}

IconMaxPx == 128

(***************************************************************************)
(* The scene graph.  tree.node[i] is node i, tree.node[i].children the     *)
(* sequence of its children (indices), node 1 the root.  visible is FALSE  *)
(* exactly when the node's visible field is false.                         *)
(***************************************************************************)
Node(t, i) == t.node[i]

\* imagesMap[node.id]: undefined (NoUrl here) when the map has no such key
NoUrl == <<>>
Lookup(m, id) == IF id \in DOMAIN m THEN m[id] ELSE NoUrl

\* fills.some((f) => f?.type === "IMAGE" && f.visible !== false), line 260
hasImageFill(n) ==
    \E k \in DOMAIN n.fills : n.fills[k].type = "IMAGE" /\ n.fills[k].visible

(***************************************************************************)
(* shouldTreatAsSingleContainer (lines 246-265).  ScanLoop is the while    *)
(* loop of lines 256-263 on the work stack: pop the last entry, skip an    *)
(* invisible node, stop at the first evidence, else push the children.     *)
(***************************************************************************)
\* the last entry read without being taken off the stack
ScanPeek(stack) == stack

\* line 257: what stack.pop() leaves on the stack
ScanPop(stack) == SubSeq(stack, 1, Len(stack) - 1)

\* line 261: the node is the evidence the scan looks for
ScanEvidence(n) == hasImageFill(n) \/ n.type \in vectorish

RECURSIVE ScanLoop(_, _)
ScanLoop(t, stack) ==
    IF stack = <<>> THEN FALSE
    ELSE LET n == Node(t, stack[Len(stack)])
             rest == ScanPop(stack)
         IN  IF ~n.visible THEN ScanLoop(t, rest)
             ELSE IF ScanEvidence(n) THEN TRUE
             ELSE ScanLoop(t, rest \o n.children)

\* the limit taken as exclusive
IsSmallStrict(abb) == abb.width < IconMaxPx * PxUnits /\ abb.height < IconMaxPx * PxUnits
IsSmall(abb) ==
    abb.width <= IconMaxPx * PxUnits /\ abb.height <= IconMaxPx * PxUnits

\* lines 247-251: the checks before the scan
ScanGate(n) ==
    IF ~n.abb.has THEN FALSE
    ELSE IF ~IsSmall(n.abb) \/ n.type \notin kind THEN FALSE
    ELSE TRUE

shouldTreatAsSingleContainer(t, i) ==
    IF ScanGate(Node(t, i)) THEN ScanLoop(t, Node(t, i).children) ELSE FALSE

(***************************************************************************)
(* generateHtmlFromFrame (lines 53-121).  nodeToHtml (lines 58-81) returns *)
(* the markup of one node as a sequence of pieces; each piece records the  *)
(* node whose call wrote it, and RenderPiece gives its text.               *)
(*   empty : <div class="cls"></div>                  (line 66)            *)
(*   img   : <img class="cls" alt="" src="url" />     (line 72)            *)
(*   open  : <tag class="cls"> followed by inner      (line 80)            *)
(*   close : </tag>                                   (line 80)            *)
(***************************************************************************)
Piece(k, i, tag, cls, arg) ==
    [kind |-> k, node |-> i, tag |-> tag, cls |-> cls, arg |-> arg]

\* (node.characters || "").replace(/\n/g, "<br/>"), line 78
RECURSIVE BreakLines(_)
BreakLines(s) ==
    IF s = <<>> THEN <<>>
    ELSE (IF Head(s) = "\n" THEN <<"<", "br", "/", ">">> ELSE <<Head(s)>>)
         \o BreakLines(Tail(s))

\* line 76
TagOf(n) == IF n.type = "TEXT" THEN (IF n.fontSize >= 32 THEN "h1" ELSE "p") ELSE "div"

\* line 78
InnerOf(n) == IF n.type = "TEXT" THEN BreakLines(n.characters) ELSE <<>>

\* line 71: the node is drawn as an <img>
IsImgNode(n, url) ==
    url # NoUrl /\ (n.type \in vectorish \/ n.children = <<>>)

\* a guard that compares visible with the string "false": nothing is pruned
HtmlPrunedNever(n) == FALSE

\* line 59: the node and its subtree are left out
HtmlPruned(n) == ~n.visible

\* lines 60-80: the piece a node that is not pruned starts with, given line 64's answer
HtmlPiece(t, m, i, collapsed) ==
    LET n == Node(t, i)
        cls == safeClass(n.id)
        modifiedUrl == Lookup(m, n.id)
    IN  IF collapsed THEN Piece("empty", i, "div", cls, <<>>)
        ELSE IF IsImgNode(n, modifiedUrl) THEN Piece("img", i, "img", cls, modifiedUrl)
        ELSE Piece("open", i, TagOf(n), cls, InnerOf(n))

ClosePiece(t, i) == Piece("close", i, TagOf(Node(t, i)), safeClass(Node(t, i).id), <<>>)

\* line 64: modifiedUrl && shouldTreatAsSingleContainer(node)
HtmlCollapses(t, m, i) ==
    Lookup(m, Node(t, i).id) # NoUrl /\ shouldTreatAsSingleContainer(t, i)

RECURSIVE nodeToHtml(_, _, _)
nodeToHtml(t, m, i) ==
    LET n == Node(t, i)
        own == HtmlPiece(t, m, i, HtmlCollapses(t, m, i))
    IN  IF HtmlPruned(n) THEN <<>>
        ELSE IF own.kind # "open" THEN <<own>>
        ELSE <<own>>
             \o Flatten([k \in DOMAIN n.children |-> nodeToHtml(t, m, n.children[k])])
             \o <<ClosePiece(t, i)>>

OpenTag(p) == <<"<", p.tag, " class=", "\"">> \o p.cls \o <<"\"", ">">>
CloseTag(p) == <<"<", "/", p.tag, ">">>

RenderPiece(p) ==
    CASE p.kind = "empty" -> OpenTag(p) \o CloseTag(p)
      [] p.kind = "img" ->
            <<"<", "img", " class=", "\"">> \o p.cls
            \o <<"\"", " alt=", "\"", "\"", " src=", "\"">> \o p.arg
            \o <<"\"", " ", "/", ">">>
      [] p.kind = "open" -> OpenTag(p) \o p.arg
      [] p.kind = "close" -> CloseTag(p)

\* the text of line 103's ${content}
RenderHtml(pieces) == Flatten([k \in DOMAIN pieces |-> RenderPiece(pieces[k])])

DefaultW == 390
DefaultH == 844

\* lines 54-56 and 83: the frame's size in whole pixels and the content
generateHtmlFromFrame(t, m) ==
    LET root == Node(t, 1)
        rootBox == IF root.abb.has THEN root.abb
                   ELSE [width |-> DefaultW * PxUnits, height |-> DefaultH * PxUnits]
    IN  [W |-> MathRound(rootBox.width),
         H |-> MathRound(rootBox.height),
         content |-> nodeToHtml(t, m, 1)]

(***************************************************************************)
(* generateCssFromFrame (lines 125-241).  A rule is its selector, the      *)
(* properties makeRule writes (cssLine drops a null or empty value) and    *)
(* the node whose emitNode call wrote it (0 for the #frame rule).          *)
(* Only the fields the modelled nodes carry are resolved: a node here has  *)
(* no strokes, corner radii, clipsContent, background or backgroundColor,  *)
(* and a TEXT node's style holds fontSize alone.                           *)
(***************************************************************************)
Rule(i, sel, props) == [node |-> i, sel |-> sel, props |-> props]

\* {...a, ...b}: the later object wins
Spread(a, b) == b @@ a

Prop(k, v) == k :> v
NoProps == [k \in {} |-> 0]

\* firstVisible (lines 17-18)
firstVisible(arr) ==
    IF \E k \in DOMAIN arr : arr[k].visible
    THEN <<arr[CHOOSE k \in DOMAIN arr :
                  arr[k].visible /\ \A j \in DOMAIN arr : arr[j].visible => k <= j]>>
    ELSE <<>>

\* lines 135-146
LayoutOf(abb, origin) ==
    LET position == Prop("position", IF origin.has THEN "absolute" ELSE "relative")
    IN  IF abb.has
        THEN Spread(Spread(position,
                           IF origin.has
                           THEN Spread(Prop("left", px(abb.x - origin.x)),
                                       Prop("top", px(abb.y - origin.y)))
                           ELSE NoProps),
                    Spread(Prop("width", px(abb.width)), Prop("height", px(abb.height))))
        ELSE position

\* lines 155-158 and 167-170
ImageVisuals(url, size) ==
    Spread(Spread(Prop("background-image", <<"url(", "\"">> \o url \o <<"\"", ")">>),
                  Prop("background-repeat", "no-repeat")),
           Spread(Prop("background-size", size), Prop("background-position", "center")))

\* lines 172-179, for a node with fills alone
FillVisuals(n) ==
    LET fill == firstVisible(n.fills)
    IN  IF fill # <<>> /\ fill[1].type = "SOLID" THEN Prop("background", "rgba")
        ELSE NoProps

\* lines 203-221
TextVisuals(n) ==
    LET textFill == firstVisible(n.fills)
    IN  Spread(Spread(Spread(Prop("margin", "0"),
                             IF n.fontSize # 0 THEN Prop("font-size", px(n.fontSize * PxUnits))
                             ELSE NoProps),
                      IF n.abb.has
                      THEN Spread(Spread(Prop("width", px(n.abb.width)),
                                         Prop("height", px(n.abb.height))),
                                  Prop("overflow", "hidden"))
                      ELSE NoProps),
               Spread(Spread(Prop("white-space", "pre-wrap"), Prop("font-family", "Inter")),
                      IF textFill # <<>> /\ textFill[1].type = "SOLID"
                      THEN Prop("color", "rgba") ELSE NoProps))

\* lines 164-222
VisualsOf(n, modifiedUrl) ==
    IF n.type # "TEXT"
    THEN (IF modifiedUrl # NoUrl THEN ImageVisuals(modifiedUrl, "cover") ELSE FillVisuals(n))
    ELSE TextVisuals(n)

\* a counter kept outside the function: a call goes on from the last value
ZStartKept(z) == z

\* line 127: let zCounter = 0
ZStart(z) == 0

\* the node's own box handed down even when it is absent
NextOriginOwnBox(abb, origin) == abb

\* line 226
NextOrigin(abb, origin) == IF abb.has THEN abb ELSE origin

\* line 160's return forgotten: the collapsed case falls through
CssDescendsAlways(t, m, i) == TRUE

\* lines 154 and 160: emitNode goes on to lines 163-227 unless the node collapses
CssDescends(t, m, i) ==
    ~(Lookup(m, Node(t, i).id) # NoUrl /\ shouldTreatAsSingleContainer(t, i))

\* a guard that also gives up on a node without a box
CssPrunedNoBox(n) == ~n.visible \/ ~n.abb.has

\* line 130: the node and its subtree are left out
CssPruned(n) == ~n.visible

\* lines 131-224: the rule of a node that is not pruned, z being the counter after
\* line 148's increment and collapsed line 154's answer
CssRule(t, m, i, origin, z, collapsed) ==
    LET n == Node(t, i)
        cls == <<".">> \o safeClass(n.id)
        layout == Spread(LayoutOf(n.abb, origin), Prop("z-index", z))
        modifiedUrl == Lookup(m, n.id)
    IN  Rule(i, cls, Spread(layout, IF collapsed THEN ImageVisuals(modifiedUrl, "contain")
                                    ELSE VisualsOf(n, modifiedUrl)))

\* the counter left as it was
ZNextStuck(z) == z
\* ++zCounter, line 148
ZNext(z) == z + 1

RECURSIVE emitNode(_, _, _, _, _)
RECURSIVE emitChildren(_, _, _, _, _)
\* st = [css |-> the rules so far, z |-> zCounter]
emitNode(t, m, i, origin, st) ==
    LET n == Node(t, i)
        z == ZNext(st.z)
    IN  IF CssPruned(n) THEN st
        ELSE IF ~CssDescends(t, m, i)
             THEN [css |-> Append(st.css, CssRule(t, m, i, origin, z, TRUE)), z |-> z]
        ELSE emitChildren(t, m, n.children, NextOrigin(n.abb, origin),
                          [css |-> Append(st.css, CssRule(t, m, i, origin, z, FALSE)), z |-> z])

\* (node.children || []).forEach((c) => emitNode(c, nextOrigin)), line 227
emitChildren(t, m, cs, origin, st) ==
    IF cs = <<>> THEN st
    ELSE emitChildren(t, m, Tail(cs), origin, emitNode(t, m, Head(cs), origin, st))

\* lines 231-237
FrameRule(t) ==
    LET root == Node(t, 1)
        rb == IF root.abb.has THEN root.abb
              ELSE [width |-> DefaultW * PxUnits, height |-> DefaultH * PxUnits]
    IN  Rule(0, <<"#frame">>,
             Spread(Spread(Prop("position", "relative"), Prop("width", px(rb.width))),
                    Spread(Prop("height", px(rb.height)), Prop("isolation", "isolate"))))

\* the whole call: the rules written and the counter's last value
generateCssFromFrame(t, m, z) ==
    emitNode(t, m, 1, NoBox, [css |-> <<FrameRule(t)>>, z |-> ZStart(z)])

(***************************************************************************)
(* The inputs.  A tree has 1..MaxNodes nodes; node j's parent is an        *)
(* earlier node, and a node's children are in index order.  Each node's    *)
(* type, visible flag and box are free; its id, its text and its font size *)
(* follow from its index, and so does the URL the image map holds for it   *)
(* when it has an entry.                                                   *)
(***************************************************************************)
Str1 == <<"1", ":", "2">>
Str2 == <<"1", ";", "2">>
Str3 == <<"1", "_", "2">>
Str4 == <<"4", "-", "5">>
Str5 == <<"6", "_", "7">>
NodeIds == <<Str1, Str2, Str3, Str4, Str5>>

Texts == << <<"H", "i">>, <<"a", "\n", "b">>, <<"<", "b", ">">>, <<"x", "&", "y">>, <<>> >>

Urls == << <<"u", "1">>, <<"u", "\"", "2">>, <<"u", "3">>, <<"u", "4">>, <<"u", "5">> >>

NodeTypes == {"FRAME", "GROUP", "BOOLEAN_OPERATION", "TEXT"}
BoxKinds == {"none", "small", "big"}

\* a box at most 128 by 128 pixels ("small"), or just beyond in one dimension ("big")
BoxOf(i, bk) ==
    CASE bk = "none" -> NoBox
      [] bk = "small" ->
            [has |-> TRUE, x |-> 7 * i, y |-> 5 * i + 1,
             width |-> IconMaxPx * PxUnits, height |-> 24 * PxUnits]
      [] bk = "big" ->
            [has |-> TRUE, x |-> 7 * i, y |-> 5 * i + 1,
             width |-> IF i % 2 = 1 THEN IconMaxPx * PxUnits + 1 ELSE 24 * PxUnits,
             height |-> IF i % 2 = 1 THEN 24 * PxUnits ELSE IconMaxPx * PxUnits + 1]

SolidFill == [type |-> "SOLID", visible |-> TRUE]
ImageFill(v) == [type |-> "IMAGE", visible |-> v]

\* a TEXT node has a solid fill; FRAME nodes have a solid fill, a solid fill under a
\* visible image fill, or a hidden image fill alone, by index; other nodes have none
FillsOf(ty, i) ==
    CASE ty = "TEXT" -> <<SolidFill>>
      [] ty = "FRAME" /\ i % 3 = 1 -> <<SolidFill>>
      [] ty = "FRAME" /\ i % 3 = 2 -> <<SolidFill, ImageFill(TRUE)>>
      [] ty = "FRAME" /\ i % 3 = 0 -> <<ImageFill(FALSE)>>
      [] OTHER -> <<>>

ParentVectors(n) ==
    {p \in [1..n -> 0..(n - 1)] : p[1] = 0 /\ \A j \in 2..n : p[j] \in 1..(j - 1)}

MakeTree(n, p, ty, vis, bk) ==
    [size |-> n,
     node |-> [i \in 1..n |->
                 [id |-> NodeIds[i],
                  type |-> ty[i],
                  visible |-> vis[i],
                  abb |-> BoxOf(i, bk[i]),
                  fills |-> FillsOf(ty[i], i),
                  characters |-> IF ty[i] = "TEXT" THEN Texts[i] ELSE <<>>,
                  fontSize |-> IF ty[i] = "TEXT" THEN 16 * i ELSE 0,
                  children |-> SeqOfSet({j \in 1..n : p[j] = i})]]]

MakeMap(keys) == [id \in {NodeIds[i] : i \in keys} |->
                    Urls[CHOOSE i \in keys : NodeIds[i] = id]]

Inputs(Types, Boxes) ==
    \E n \in 1..MaxNodes :
       \E p \in ParentVectors(n), ty \in [1..n -> Types],
          vis \in [1..n -> BOOLEAN], bk \in [1..n -> Boxes], keys \in SUBSET (1..n) :
          /\ tree = MakeTree(n, p, ty, vis, bk)
          /\ imagesMap = MakeMap(keys)

NoScan == [state |-> "none", stack |-> <<>>, pops |-> 0]

StepsOff ==
    /\ run = "off"
    /\ work = <<>>
    /\ scan = NoScan
    /\ out = <<>>
    /\ visits = <<>>

SubmitOff ==
    /\ input = <<>>
    /\ token = FALSE
    /\ busy = FALSE
    /\ pc = "off"
    /\ screens = <<>>
    /\ cur = 0
    /\ fetches = <<>>
    /\ alerts = <<>>
    /\ calls = <<>>
    /\ downloads = <<>>

Init ==
    /\ Inputs(NodeTypes, BoxKinds)
    /\ html = <<>>
    /\ css = <<>>
    /\ zCounter = 0
    /\ StepsOff
    /\ SubmitOff

(***************************************************************************)
(* The calls.  Neither generator assigns to a field of the tree or of the  *)
(* image map.  A specification allows each generator `limit` calls.        *)
(***************************************************************************)
GenerateHtml(limit) ==
    /\ Len(html) < limit
    /\ html' = Append(html, generateHtmlFromFrame(tree, imagesMap))
    /\ UNCHANGED <<tree, imagesMap, css, zCounter, stepVars, submitVars>>

GenerateCss(limit) ==
    /\ Len(css) < limit
    /\ LET st == generateCssFromFrame(tree, imagesMap, zCounter)
       IN  /\ css' = Append(css, st.css)
           /\ zCounter' = st.z
    /\ UNCHANGED <<tree, imagesMap, html, stepVars, submitVars>>

Next == GenerateHtml(1) \/ GenerateCss(1)

Spec == Init /\ [][Next]_vars

(***************************************************************************)
(* The generators called again and again on the same inputs, in any order. *)
(***************************************************************************)
MaxCalls == 2

FewTypes == {"FRAME", "GROUP", "BOOLEAN_OPERATION"}

InitRepeat ==
    /\ Inputs(FewTypes, {"small"})
    /\ html = <<>>
    /\ css = <<>>
    /\ zCounter = 0
    /\ StepsOff
    /\ SubmitOff

NextRepeat == GenerateHtml(MaxCalls) \/ GenerateCss(MaxCalls)

SpecRepeat == InitRepeat /\ [][NextRepeat]_vars

(***************************************************************************)
(* One generator call, statement by statement.  work holds the calls of    *)
(* nodeToHtml / emitNode that are still to be made (and, for the markup,   *)
(* the closing tags still to be written), the next one last; a call that   *)
(* reaches line 64 / 154 with a mapped URL runs shouldTreatAsSingleContainer*)
(* first, one turn of its loop at a time.                                  *)
(***************************************************************************)
Visit(i, origin) == [op |-> "visit", node |-> i, origin |-> origin]
Close(i) == [op |-> "close", node |-> i, origin |-> NoBox]

RECURSIVE Reverse(_)
Reverse(q) == IF q = <<>> THEN <<>> ELSE Append(Reverse(Tail(q)), Head(q))

\* the calls for the children, the first child's call next
ChildCalls(cs, origin) == Reverse([k \in DOMAIN cs |-> Visit(cs[k], origin)])

Top == work[Len(work)]
Popped == SubSeq(work, 1, Len(work) - 1)

\* the call gets as far as the loop of lines 255-263
RunsScan(t, m, i) == Lookup(m, Node(t, i).id) # NoUrl /\ ScanGate(Node(t, i))

InitSteps ==
    /\ Inputs(FewTypes, {"small"})
    /\ html = <<>>
    /\ css = <<>>
    /\ zCounter = 0
    /\ run = "idle"
    /\ work = <<>>
    /\ scan = NoScan
    /\ out = <<>>
    /\ visits = [i \in 1..tree.size |-> 0]
    /\ SubmitOff

\* lines 54-56 and 83
StartHtml ==
    /\ run = "idle"
    /\ run' = "html"
    /\ work' = <<Visit(1, NoBox)>>
    /\ out' = <<>>
    /\ UNCHANGED <<coreVars, scan, visits, submitVars>>

\* lines 126-127, 231-237 and 239
StartCss ==
    /\ run = "idle"
    /\ run' = "css"
    /\ zCounter' = ZStart(zCounter)
    /\ work' = <<Visit(1, NoBox)>>
    /\ out' = <<FrameRule(tree)>>
    /\ UNCHANGED <<tree, imagesMap, html, css, scan, visits, submitVars>>

Entering == run \in {"html", "css"} /\ work # <<>> /\ Top.op = "visit"

\* lines 59 / 130: the call returns at once
PruneStep ==
    /\ Entering
    /\ IF run = "html" THEN HtmlPruned(Node(tree, Top.node)) ELSE CssPruned(Node(tree, Top.node))
    /\ work' = Popped
    /\ visits' = [visits EXCEPT ![Top.node] = @ + 1]
    /\ UNCHANGED <<coreVars, run, scan, out, submitVars>>

NotPruned ==
    IF run = "html" THEN ~HtmlPruned(Node(tree, Top.node)) ELSE ~CssPruned(Node(tree, Top.node))

\* line 255: const stack = [...(node.children || [])]
BeginScan ==
    /\ Entering /\ NotPruned
    /\ RunsScan(tree, imagesMap, Top.node)
    /\ scan.state = "none"
    /\ scan' = [state |-> "run", stack |-> Node(tree, Top.node).children, pops |-> 0]
    /\ UNCHANGED <<coreVars, run, work, out, visits, submitVars>>

\* lines 256-264: one turn of the loop, or its end
ScanStep ==
    /\ scan.state = "run"
    /\ IF scan.stack = <<>>
       THEN scan' = [scan EXCEPT !.state = "no"]
       ELSE LET n == Node(tree, scan.stack[Len(scan.stack)])
                rest == ScanPop(scan.stack)
            IN  IF ~n.visible
                THEN scan' = [scan EXCEPT !.stack = rest, !.pops = @ + 1]
                ELSE IF ScanEvidence(n)
                THEN scan' = [state |-> "yes", stack |-> rest, pops |-> scan.pops + 1]
                ELSE scan' = [scan EXCEPT !.stack = rest \o n.children, !.pops = @ + 1]
    /\ UNCHANGED <<coreVars, run, work, out, visits, submitVars>>

\* line 64 / 154 has its answer
Decided ==
    IF RunsScan(tree, imagesMap, Top.node) THEN scan.state \in {"yes", "no"}
    ELSE scan.state = "none"

\* lines 60-80, up to the first child's call
EnterHtml ==
    /\ run = "html" /\ Entering /\ NotPruned /\ Decided
    /\ LET i == Top.node
           own == HtmlPiece(tree, imagesMap, i, scan.state = "yes")
       IN  /\ out' = Append(out, own)
           /\ work' = IF own.kind = "open"
                      THEN Popped \o <<Close(i)>> \o ChildCalls(Node(tree, i).children, NoBox)
                      ELSE Popped
           /\ visits' = [visits EXCEPT ![i] = @ + 1]
    /\ scan' = NoScan
    /\ UNCHANGED <<coreVars, run, submitVars>>

\* line 80: the closing tag, after the children
CloseStep ==
    /\ run = "html" /\ work # <<>> /\ Top.op = "close"
    /\ out' = Append(out, ClosePiece(tree, Top.node))
    /\ work' = Popped
    /\ UNCHANGED <<coreVars, run, scan, visits, submitVars>>

\* lines 131-227, up to the first child's call
EnterCss ==
    /\ run = "css" /\ Entering /\ NotPruned /\ Decided
    /\ LET i == Top.node
           collapsed == scan.state = "yes"
       IN  /\ zCounter' = ZNext(zCounter)
           /\ out' = Append(out, CssRule(tree, imagesMap, i, Top.origin, ZNext(zCounter), collapsed))
           /\ work' = IF collapsed THEN Popped
                      ELSE Popped \o ChildCalls(Node(tree, i).children,
                                                NextOrigin(Node(tree, i).abb, Top.origin))
           /\ visits' = [visits EXCEPT ![i] = @ + 1]
    /\ scan' = NoScan
    /\ UNCHANGED <<tree, imagesMap, html, css, run, submitVars>>

\* lines 86-120 / 240: the call returns
Finish ==
    /\ run \in {"html", "css"} /\ work = <<>>
    /\ IF run = "html"
       THEN /\ html' = Append(html, [generateHtmlFromFrame(tree, imagesMap) EXCEPT !.content = out])
            /\ css' = css
       ELSE /\ css' = Append(css, out)
            /\ html' = html
    /\ run' = "done"
    /\ UNCHANGED <<tree, imagesMap, zCounter, work, scan, out, visits, submitVars>>

NextSteps ==
    \/ StartHtml \/ StartCss \/ PruneStep \/ BeginScan \/ ScanStep
    \/ EnterHtml \/ CloseStep \/ EnterCss \/ Finish

\* the code is synchronous: a call that has a next statement executes it
SpecSteps == InitSteps /\ [][NextSteps]_vars /\ WF_vars(NextSteps)

\* a finished call has returned what the generator returns
StepsAgree ==
    run = "done" =>
        /\ html # <<>> => html[1] = generateHtmlFromFrame(tree, imagesMap)
        /\ css # <<>> => css[1] = generateCssFromFrame(tree, imagesMap, 0).css

(***************************************************************************)
(* The Input component.  The entered text is a URL taken apart: whether    *)
(* new URL() accepts it, its host name, the segments of its path (for each *)
(* its length and whether it is all letters and digits) and whether a      *)
(* query string follows the path.                                          *)
(***************************************************************************)
KeyLen == 22

EndsWith(s, suffix) ==
    /\ Len(s) >= Len(suffix)
    /\ SubSeq(s, Len(s) - Len(suffix) + 1, Len(s)) = suffix

FigmaCom == <<"f", "i", "g", "m", "a", ".", "c", "o", "m">>

\* a path segment that /\/[A-Za-z0-9]{22}(\/|$)/ takes for a file key
IsKey(seg) == seg.len = KeyLen /\ seg.alnum

isFigmaUrl(url) ==
    IF ~url.parses THEN FALSE
    ELSE IF ~EndsWith(url.host, FigmaCom) THEN FALSE
    ELSE \E k \in DOMAIN url.path : IsKey(url.path[k])

\* extractKey matches the whole text, not the path: after the last segment
\* comes the end of the text only when no query string follows
NoKey == 0
KeyMatches(url) ==
    {k \in DOMAIN url.path :
        IsKey(url.path[k]) /\ (k < Len(url.path) \/ ~url.query)}
extractKey(url) ==
    IF KeyMatches(url) = {} THEN NoKey
    ELSE CHOOSE k \in KeyMatches(url) : \A j \in KeyMatches(url) : k <= j

\* the file payload's document: one page, its children the top-level nodes
DocNode(i, ty, vis, bk) ==
    [id |-> NodeIds[i], type |-> ty, visible |-> vis, abb |-> BoxOf(i, bk), children |-> <<>>]
Page(ns) == [id |-> <<>>, type |-> "CANVAS", visible |-> TRUE, abb |-> NoBox, children |-> ns]
Document(pages) ==
    [id |-> <<>>, type |-> "DOCUMENT", visible |-> TRUE, abb |-> NoBox, children |-> pages]

isScreen == {"FRAME", "COMPONENT", "INSTANCE", "SECTION"}

getAllTopScreens(doc) ==
    LET IsPage(c) == c.type = "CANVAS" \/ c.type = "PAGE"
        Shown(n) == n.visible /\ n.type \in isScreen /\ n.abb.has
        pages == SelectSeq(doc.children, IsPage)
    IN  Flatten([k \in DOMAIN pages |-> SelectSeq(pages[k].children, Shown)])

primary == {"FRAME", "COMPONENT", "INSTANCE"}
secondary == {"SECTION", "GROUP"}
area(n) == IF n.abb.has THEN n.abb.width * n.abb.height ELSE 0
NoBest == [has |-> FALSE, id |-> <<>>, area |-> 0]
Better(best, n) ==
    IF ~best.has \/ area(n) > best.area THEN [has |-> TRUE, id |-> n.id, area |-> area(n)]
    ELSE best

RECURSIVE PickLoop(_, _, _)
PickLoop(q, bestP, bestS) ==
    IF q = <<>> THEN IF bestP.has THEN bestP ELSE bestS
    ELSE LET n == Head(q)
             rest == Tail(q) \o n.children
         IN  IF n.type \in primary THEN PickLoop(rest, Better(bestP, n), bestS)
             ELSE IF n.type \in secondary THEN PickLoop(rest, bestP, Better(bestS, n))
             ELSE PickLoop(rest, bestP, bestS)

pickBestExportNode(root) == PickLoop(<<root>>, NoBest, NoBest)

\* lines 148-154: the ids of the screens to export, none if the fallback finds none
ScreensOf(doc) ==
    LET top == getAllTopScreens(doc)
        one == pickBestExportNode(doc)
    IN  IF top # <<>> THEN [k \in DOMAIN top |-> top[k].id]
        ELSE IF one.has THEN <<one.id>> ELSE <<>>

needsImage(n) == hasImageFill(n) \/ n.type \in vectorish

RECURSIVE collectIds(_, _, _)
RECURSIVE collectKids(_, _, _)
collectIds(t, i, acc) ==
    LET n == Node(t, i)
    IN  IF ~n.visible THEN acc
        ELSE collectKids(t, n.children,
                         IF needsImage(n) /\ n.id # <<>> THEN acc \cup {n.id} ELSE acc)
collectKids(t, cs, acc) ==
    IF cs = <<>> THEN acc ELSE collectKids(t, Tail(cs), collectIds(t, Head(cs), acc))

NameMax == 80
Unsafe == {":", "*", "?", "\"", "<", ">", "|", "\\", "/"}
Blank == {" ", "\t", "\n"}
RECURSIVE Hyphenate(_)
Hyphenate(s) ==
    IF s = <<>> THEN <<>>
    ELSE IF Head(s) \in Blank
         THEN IF Len(s) > 1 /\ s[2] \in Blank THEN Hyphenate(Tail(s))
              ELSE <<"-">> \o Hyphenate(Tail(s))
         ELSE <<Head(s)>> \o Hyphenate(Tail(s))
safeName(s) ==
    LET src == IF s = <<>> THEN <<"screen">> ELSE s
        under == [k \in DOMAIN src |-> IF src[k] \in Unsafe THEN "_" ELSE src[k]]
        hyph == Hyphenate(under)
    IN  SubSeq(hyph, 1, IF Len(hyph) < NameMax THEN Len(hyph) ELSE NameMax)

(***************************************************************************)
(* One run of handleSubmit, from one await to the next.  Every fetch is    *)
(* logged when it is issued and gets its outcome when it settles: "ok",    *)
(* "reject" (the fetch or resp.json() rejects) or "bad" (a payload without *)
(* the field the code reads).  A fetch that never settles leaves the run   *)
(* where it is.                                                            *)
(***************************************************************************)
MaxScreens == 2
MaxFrameNodes == 2

Hosts == {FigmaCom, <<"w", "w", "w", ".">> \o FigmaCom, <<"x">> \o FigmaCom,
          <<"f", "i", "g", "m", "a", ".", "i", "o">>}
Segments == {[len |-> KeyLen, alnum |-> TRUE], [len |-> KeyLen - 1, alnum |-> TRUE],
             [len |-> KeyLen, alnum |-> FALSE]}
Paths == UNION {[1..n -> Segments] : n \in 0..2}
EnteredUrls ==
    {[parses |-> TRUE, host |-> h, path |-> p, query |-> q] :
        h \in Hosts, p \in Paths, q \in BOOLEAN}
    \cup {[parses |-> FALSE, host |-> <<>>, path |-> <<>>, query |-> FALSE]}

DocTypes == {"FRAME", "GROUP", "TEXT"}
Documents ==
    UNION {{Document(<<Page([i \in 1..n |-> DocNode(i, ty[i], vis[i], bk[i])])>>) :
               ty \in [1..n -> DocTypes], vis \in [1..n -> BOOLEAN],
               bk \in [1..n -> {"none", "small"}]} : n \in 0..MaxScreens}

\* the images payload: a URL for any of the ids asked for
ImageMaps(ids) == {MakeMap(keys) : keys \in SUBSET {i \in DOMAIN NodeIds : NodeIds[i] \in ids}}

InitSubmit ==
    /\ \E n \in 1..MaxFrameNodes :
          \E p \in ParentVectors(n), ty \in [1..n -> FewTypes], vis \in [1..n -> BOOLEAN] :
             tree = MakeTree(n, p, ty, vis, [i \in 1..n |-> "small"])
    /\ imagesMap = MakeMap({})
    /\ html = <<>>
    /\ css = <<>>
    /\ zCounter = 0
    /\ StepsOff
    /\ input \in EnteredUrls
    /\ token \in BOOLEAN
    /\ busy = FALSE
    /\ pc = "idle"
    /\ screens = <<>>
    /\ cur = 0
    /\ fetches = <<>>
    /\ alerts = <<>>
    /\ calls = <<>>
    /\ downloads = <<>>

Fetch(what, k) == [kind |-> what, screen |-> k, outcome |-> "pending"]
Settled(outcome) == [fetches EXCEPT ![Len(fetches)].outcome = outcome]

\* lines 184-189
Caught(message, outcome) ==
    /\ fetches' = Settled(outcome)
    /\ alerts' = Append(alerts, message)
    /\ busy' = FALSE
    /\ pc' = "done"

\* lines 157-165 for the next screen, or lines 187-189 after the last
Advance(outcome) ==
    /\ IF cur < Len(screens)
       THEN /\ cur' = cur + 1
            /\ fetches' = Append(Settled(outcome), Fetch("nodes", cur + 1))
            /\ pc' = "nodes"
            /\ busy' = busy
       ELSE /\ cur' = cur
            /\ fetches' = Settled(outcome)
            /\ pc' = "done"
            /\ busy' = FALSE
    /\ alerts' = alerts

\* the markup generator handed the image map of the screen before
GenerateWithStaleMap(m) ==
    LET base == safeName(screens[cur])
        st == generateCssFromFrame(tree, m, zCounter)
        Call(fn, mm) == [fn |-> fn, screen |-> cur, frameNode |-> tree, imagesMap |-> mm]
        File(ext) == [name |-> base \o <<ext>>, screen |-> cur]
    IN  /\ imagesMap' = m
        /\ html' = Append(html, generateHtmlFromFrame(tree, imagesMap))
        /\ css' = Append(css, st.css)
        /\ zCounter' = st.z
        /\ calls' = calls \o <<Call("generateHtmlFromFrame", imagesMap),
                               Call("generateCssFromFrame", m)>>
        /\ downloads' = downloads \o <<File(".html"), File(".css")>>

\* lines 174-182
GenerateAndSave(m) ==
    LET base == safeName(screens[cur])
        st == generateCssFromFrame(tree, m, zCounter)
        Call(fn) == [fn |-> fn, screen |-> cur, frameNode |-> tree, imagesMap |-> m]
        File(ext) == [name |-> base \o <<ext>>, screen |-> cur]
    IN  /\ imagesMap' = m
        /\ html' = Append(html, generateHtmlFromFrame(tree, m))
        /\ css' = Append(css, st.css)
        /\ zCounter' = st.z
        /\ calls' = calls \o <<Call("generateHtmlFromFrame"), Call("generateCssFromFrame")>>
        /\ downloads' = downloads \o <<File(".html"), File(".css")>>

NoGenerate == UNCHANGED <<imagesMap, html, css, zCounter, calls, downloads>>

\* lines 133-144
Submit ==
    /\ pc = "idle"
    /\ ~busy
    /\ IF ~isFigmaUrl(input)
       THEN /\ alerts' = Append(alerts, "Enter a valid Figma URL.")
            /\ pc' = "done"
            /\ UNCHANGED <<busy, fetches>>
       ELSE IF ~token
       THEN /\ alerts' = Append(alerts, "Missing REACT_APP_FIGMA_TOKEN")
            /\ pc' = "done"
            /\ UNCHANGED <<busy, fetches>>
       ELSE IF extractKey(input) = NoKey
       THEN /\ alerts' = Append(alerts, "Could not extract file key from URL.")
            /\ pc' = "done"
            /\ UNCHANGED <<busy, fetches>>
       ELSE /\ busy' = TRUE
            /\ fetches' = Append(fetches, Fetch("file", 0))
            /\ pc' = "file"
            /\ alerts' = alerts
    /\ UNCHANGED <<coreVars, stepVars, input, token, screens, cur, calls, downloads>>

\* lines 145-165
FileResponse ==
    /\ pc = "file"
    /\ \/ /\ Caught("fetch failed", "reject")
          /\ UNCHANGED <<screens, cur>>
       \/ /\ Caught("Cannot read properties of undefined", "bad")
          /\ UNCHANGED <<screens, cur>>
       \/ \E doc \in Documents :
             IF ScreensOf(doc) = <<>>
             THEN /\ Caught("No exportable frame found.", "ok")
                  /\ UNCHANGED <<screens, cur>>
             ELSE /\ screens' = ScreensOf(doc)
                  /\ cur' = 1
                  /\ fetches' = Append(Settled("ok"), Fetch("nodes", 1))
                  /\ pc' = "nodes"
                  /\ UNCHANGED <<busy, alerts>>
    /\ NoGenerate
    /\ UNCHANGED <<tree, stepVars, input, token>>

\* lines 165-183: the node payload's document is the frame node
NodesResponse ==
    /\ pc = "nodes"
    /\ \/ /\ Caught("fetch failed", "reject")
          /\ NoGenerate
          /\ UNCHANGED cur
       \/ /\ Advance("bad")
          /\ NoGenerate
       \/ IF collectIds(tree, 1, {}) = {}
          THEN /\ GenerateAndSave(MakeMap({}))
               /\ Advance("ok")
          ELSE /\ fetches' = Append(Settled("ok"), Fetch("images", cur))
               /\ pc' = "images"
               /\ NoGenerate
               /\ UNCHANGED <<busy, alerts, cur>>
    /\ UNCHANGED <<tree, stepVars, input, token, screens>>

\* lines 124-125 and 171-183
ImagesResponse ==
    /\ pc = "images"
    /\ \/ /\ Caught("fetch failed", "reject")
          /\ NoGenerate
          /\ UNCHANGED cur
       \/ /\ GenerateAndSave(MakeMap({}))
          /\ Advance("bad")
       \/ \E m \in ImageMaps(collectIds(tree, 1, {})) :
             /\ GenerateAndSave(m)
             /\ Advance("ok")
    /\ UNCHANGED <<tree, stepVars, input, token, screens>>

NextSubmit == Submit \/ FileResponse \/ NodesResponse \/ ImagesResponse

SpecSubmit == InitSubmit /\ [][NextSubmit]_vars

(***************************************************************************)
(* What the claims speak of.                                               *)
(***************************************************************************)
HtmlCalled == html # <<>>
CssCalled == css # <<>>
LastHtml == html[Len(html)].content
LastCss == css[Len(css)]

Nodes(t) == 1..t.size
ParentOf(t, i) ==
    IF \E j \in Nodes(t) : i \in Range(Node(t, j).children)
    THEN CHOOSE j \in Nodes(t) : i \in Range(Node(t, j).children)
    ELSE 0

RECURSIVE Ancestors(_, _)
Ancestors(t, i) ==
    IF ParentOf(t, i) = 0 THEN {} ELSE {ParentOf(t, i)} \cup Ancestors(t, ParentOf(t, i))

Descendants(t, i) == {j \in Nodes(t) : i \in Ancestors(t, j)}

\* the nodes reachable from the root through nodes whose visible is not false
VisibleReachable(t) ==
    {i \in Nodes(t) : Node(t, i).visible /\ \A a \in Ancestors(t, i) : Node(t, a).visible}

\* the elements of a markup: one per opening, empty or image tag
IsElement(p) == p.kind \in {"open", "empty", "img"}
ElementsOf(h, i) == {k \in DOMAIN h : IsElement(h[k]) /\ h[k].node = i}
RulesOf(c, i) == {k \in DOMAIN c : c[k].node = i}
HtmlNodes(h) == {h[k].node : k \in {j \in DOMAIN h : IsElement(h[j])}}
CssNodes(c) == {c[k].node : k \in DOMAIN c} \ {0}

HasEntry(m, t, i) == Lookup(m, Node(t, i).id) # NoUrl
Collapses(m, t, i) == HasEntry(m, t, i) /\ shouldTreatAsSingleContainer(t, i)

(***************************************************************************)
(* C1.  With an empty image map, every node reachable from the root        *)
(* through visible nodes has exactly one element in the markup and exactly *)
(* one rule in the style sheet, the element's class is safeClass(id) and   *)
(* the rule's selector is that class.                                      *)
(***************************************************************************)
C1_OneElementOneRule ==
    DOMAIN imagesMap = {} =>
        \A i \in VisibleReachable(tree) :
            /\ HtmlCalled =>
                 /\ Cardinality(ElementsOf(LastHtml, i)) = 1
                 /\ \A k \in ElementsOf(LastHtml, i) :
                       LastHtml[k].cls = safeClass(Node(tree, i).id)
            /\ CssCalled =>
                 /\ Cardinality(RulesOf(LastCss, i)) = 1
                 /\ \A k \in RulesOf(LastCss, i) :
                       LastCss[k].sel = <<".">> \o safeClass(Node(tree, i).id)
            /\ (HtmlCalled /\ CssCalled) =>
                 \A k \in ElementsOf(LastHtml, i), j \in RulesOf(LastCss, i) :
                       LastCss[j].sel = <<".">> \o LastHtml[k].cls

C1_Witness ==
    /\ DOMAIN imagesMap = {}
    /\ HtmlCalled /\ CssCalled
    /\ tree.size = MaxNodes
    /\ VisibleReachable(tree) = Nodes(tree)
    /\ \E i \in Nodes(tree) : ~Node(tree, i).abb.has

(***************************************************************************)
(* The claims' own reading of the tree, stated without the generators.     *)
(***************************************************************************)
\* d lies under g and every node from g's child down to d is visible
VisibleBelow(t, g, d) ==
    /\ d \in Descendants(t, g)
    /\ Node(t, d).visible
    /\ \A a \in Ancestors(t, d) : a \in Descendants(t, g) => Node(t, a).visible

IsVectorLike(n) ==
    n.type \in {"ELLIPSE", "VECTOR", "LINE", "STAR", "POLYGON", "BOOLEAN_OPERATION",
                "REGULAR_POLYGON", "ARROW"}

HasVisibleImageFill(n) ==
    \E k \in DOMAIN n.fills : n.fills[k].type = "IMAGE" /\ n.fills[k].visible

\* the collapse predicate: a container kind, a box at most 128 by 128 pixels, and a
\* vector-like or image-filled descendant reachable through visible nodes
CollapsePredicate(t, i) ==
    /\ Node(t, i).type \in {"GROUP", "COMPONENT", "INSTANCE", "COMPONENT_SET"}
    /\ Node(t, i).abb.has
    /\ Node(t, i).abb.width <= 128 * PxUnits
    /\ Node(t, i).abb.height <= 128 * PxUnits
    /\ \E d \in Nodes(t) :
          VisibleBelow(t, i, d) /\ (IsVectorLike(Node(t, d)) \/ HasVisibleImageFill(Node(t, d)))

CollapsedAt(m, t, i) == HasEntry(m, t, i) /\ CollapsePredicate(t, i)

\* drawn as one image reference: an entry, and vector-like or without children
RasterizedAt(m, t, i) ==
    HasEntry(m, t, i) /\ (IsVectorLike(Node(t, i)) \/ Node(t, i).children = <<>>)

\* nodeToHtml / emitNode is called on node i and does not prune it
HtmlReached(m, t, i) ==
    /\ i \in VisibleReachable(t)
    /\ \A a \in Ancestors(t, i) : ~CollapsedAt(m, t, a) /\ ~RasterizedAt(m, t, a)

CssReached(m, t, i) ==
    /\ i \in VisibleReachable(t)
    /\ \A a \in Ancestors(t, i) : ~CollapsedAt(m, t, a)

UrlRef(url) == <<"url(", "\"">> \o url \o <<"\"", ")">>

(***************************************************************************)
(* C2.  A node whose visible is false, and every descendant of such a      *)
(* node, has no element (nor any other piece of markup) and no rule, for   *)
(* every image map; and the collapse scan answers true only when a node    *)
(* reachable through visible nodes is the evidence.                        *)
(***************************************************************************)
C2_InvisiblePruned ==
    /\ \A i \in Nodes(tree) \ VisibleReachable(tree) :
          /\ HtmlCalled => \A k \in DOMAIN LastHtml : LastHtml[k].node # i
          /\ CssCalled => RulesOf(LastCss, i) = {}
    /\ \A g \in Nodes(tree) :
          shouldTreatAsSingleContainer(tree, g) =>
              \E d \in Nodes(tree) :
                  /\ VisibleBelow(tree, g, d)
                  /\ (IsVectorLike(Node(tree, d)) \/ HasVisibleImageFill(Node(tree, d)))

\* an invisible node with an entry hides a visible vector-like child with an entry,
\* under a small visible group with an entry
C2_Witness ==
    /\ HtmlCalled /\ CssCalled
    /\ tree.size = 3
    /\ Node(tree, 1).visible /\ Node(tree, 1).type = "GROUP" /\ IsSmall(Node(tree, 1).abb)
    /\ Node(tree, 1).abb.has
    /\ ~Node(tree, 2).visible /\ Node(tree, 2).children = <<3>>
    /\ Node(tree, 3).visible /\ Node(tree, 3).type = "BOOLEAN_OPERATION"
    /\ \A i \in Nodes(tree) : HasEntry(imagesMap, tree, i)

(***************************************************************************)
(* C3.  A node with an image-map entry that satisfies the collapse         *)
(* predicate, where the traversal reaches it, has exactly one element, an  *)
(* empty one, and its descendants have none; it has exactly one rule, with *)
(* a background-image that references the mapped URL, and its descendants  *)
(* have none.                                                              *)
(***************************************************************************)
C3_Collapse ==
    \A i \in Nodes(tree) :
        CollapsedAt(imagesMap, tree, i) =>
            /\ (HtmlCalled /\ HtmlReached(imagesMap, tree, i)) =>
                 /\ Cardinality(ElementsOf(LastHtml, i)) = 1
                 /\ \A k \in DOMAIN LastHtml :
                       LastHtml[k].node = i => LastHtml[k].kind = "empty"
                 /\ \A d \in Descendants(tree, i) :
                       \A k \in DOMAIN LastHtml : LastHtml[k].node # d
            /\ (CssCalled /\ CssReached(imagesMap, tree, i)) =>
                 /\ Cardinality(RulesOf(LastCss, i)) = 1
                 /\ \A k \in RulesOf(LastCss, i) :
                       /\ "background-image" \in DOMAIN LastCss[k].props
                       /\ LastCss[k].props["background-image"]
                             = UrlRef(imagesMap[Node(tree, i).id])
                 /\ \A d \in Descendants(tree, i) : RulesOf(LastCss, d) = {}

\* the root holds a small group with an entry, and the group a vector-like child
C3_Witness ==
    /\ HtmlCalled /\ CssCalled
    /\ tree.size = 3
    /\ Node(tree, 1).children = <<2>> /\ Node(tree, 2).children = <<3>>
    /\ Node(tree, 1).type = "FRAME"
    /\ CollapsedAt(imagesMap, tree, 2)
    /\ HtmlReached(imagesMap, tree, 2)
    /\ Node(tree, 3).visible /\ IsVectorLike(Node(tree, 3))

(***************************************************************************)
(* C4.  The nodes with an element in the markup are the nodes with a rule  *)
(* in the style sheet.                                                     *)
(***************************************************************************)
C4_SameNodes ==
    (HtmlCalled /\ CssCalled) => HtmlNodes(LastHtml) = CssNodes(LastCss)

(***************************************************************************)
(* C5.  Two different nodes never share a class or a rule selector.        *)
(***************************************************************************)
C5_DistinctSelectors ==
    /\ HtmlCalled =>
          \A k, j \in DOMAIN LastHtml :
              (IsElement(LastHtml[k]) /\ IsElement(LastHtml[j])
                  /\ LastHtml[k].node # LastHtml[j].node)
              => LastHtml[k].cls # LastHtml[j].cls
    /\ CssCalled =>
          \A k, j \in DOMAIN LastCss :
              LastCss[k].node # LastCss[j].node => LastCss[k].sel # LastCss[j].sel

(***************************************************************************)
(* A reading of markup text: tags are <name ...>, </name> and <name ... /> *)
(* with double-quoted attribute values; img and br are void.  TagEnd is    *)
(* the position of the > that ends the tag opened before position k, or 0  *)
(* when the text ends first; Balanced follows the stack of open elements.  *)
(***************************************************************************)
RECURSIVE TagEnd(_, _, _)
TagEnd(s, k, quoted) ==
    IF k > Len(s) THEN 0
    ELSE IF s[k] = "\"" THEN TagEnd(s, k + 1, ~quoted)
    ELSE IF s[k] = ">" /\ ~quoted THEN k
    ELSE TagEnd(s, k + 1, quoted)

VoidTags == {"img", "br"}

RECURSIVE Balanced(_, _, _)
Balanced(s, k, open) ==
    IF k > Len(s) THEN open = <<>>
    ELSE IF s[k] # "<" THEN Balanced(s, k + 1, open)
    ELSE LET e == TagEnd(s, k + 1, FALSE)
             body == SubSeq(s, k + 1, e - 1)
         IN  IF e = 0 \/ body = <<>> THEN FALSE
             ELSE IF body[1] = "/"
                  THEN /\ Len(body) = 2
                       /\ open # <<>>
                       /\ open[Len(open)] = body[2]
                       /\ Balanced(s, e + 1, SubSeq(open, 1, Len(open) - 1))
             ELSE IF body[Len(body)] = "/" \/ body[1] \in VoidTags
                  THEN Balanced(s, e + 1, open)
             ELSE Balanced(s, e + 1, Append(open, body[1]))

WellFormed(s) == Balanced(s, 1, <<>>)

\* the number of elements a markup text opens
RECURSIVE CountOpened(_, _)
CountOpened(s, k) ==
    IF k > Len(s) THEN 0
    ELSE (IF s[k] = "<" /\ k < Len(s) /\ s[k + 1] # "/" /\ s[k + 1] # "br" THEN 1 ELSE 0)
         + CountOpened(s, k + 1)

(***************************************************************************)
(* C6.  The markup is well formed for every tree: every element opened is  *)
(* closed and the text opens one element per node that has one, whatever   *)
(* the characters of a TEXT node and the mapped URL contain.               *)
(***************************************************************************)
C6_WellFormed ==
    HtmlCalled =>
        /\ WellFormed(RenderHtml(LastHtml))
        /\ CountOpened(RenderHtml(LastHtml), 1) = Cardinality(HtmlNodes(LastHtml))

\* the same, for trees whose emitted texts and URLs hold none of < > and the quote
PlainText(s) == \A k \in DOMAIN s : s[k] \notin {"<", ">", "\""}
C6_PlainWellFormed ==
    (HtmlCalled /\ \A k \in DOMAIN LastHtml :
                      LastHtml[k].kind \in {"open", "img"} =>
                          PlainText(IF LastHtml[k].kind = "img" THEN LastHtml[k].arg
                                    ELSE Node(tree, LastHtml[k].node).characters))
    => /\ WellFormed(RenderHtml(LastHtml))
       /\ CountOpened(RenderHtml(LastHtml), 1) = Cardinality(HtmlNodes(LastHtml))

(***************************************************************************)
(* C8.  A non-root node without absoluteBoundingBox that emitNode reaches  *)
(* has exactly one rule, without left, top, width and height; each of its  *)
(* visible children has a rule, and a child with a box is placed relative  *)
(* to the nearest ancestor that has a box.                                 *)
(***************************************************************************)
BoxedAncestors(t, i) == {a \in Ancestors(t, i) : Node(t, a).abb.has}
\* the nearest ancestor with a box: the one that every other one is above
NearestBoxed(t, i) ==
    CHOOSE a \in BoxedAncestors(t, i) :
        \A b \in BoxedAncestors(t, i) \ {a} : b \in Ancestors(t, a)

C8_MissingBox ==
    CssCalled =>
        \A i \in Nodes(tree) \ {1} :
            (CssReached(imagesMap, tree, i) /\ ~Node(tree, i).abb.has) =>
                /\ Cardinality(RulesOf(LastCss, i)) = 1
                /\ \A k \in RulesOf(LastCss, i) :
                      DOMAIN LastCss[k].props \cap {"left", "top", "width", "height"} = {}
                /\ \A c \in Range(Node(tree, i).children) :
                      Node(tree, c).visible =>
                          /\ Cardinality(RulesOf(LastCss, c)) = 1
                          /\ \A k \in RulesOf(LastCss, c) :
                                IF Node(tree, c).abb.has /\ BoxedAncestors(tree, c) # {}
                                THEN LET o == Node(tree, NearestBoxed(tree, c)).abb
                                     IN  /\ LastCss[k].props["position"] = "absolute"
                                         /\ LastCss[k].props["left"]
                                               = MathRound(Node(tree, c).abb.x - o.x)
                                         /\ LastCss[k].props["top"]
                                               = MathRound(Node(tree, c).abb.y - o.y)
                                ELSE DOMAIN LastCss[k].props \cap {"left", "top"} = {}

\* a boxed root, a child without a box, and a visible boxed grandchild
C8_Witness ==
    /\ CssCalled
    /\ tree.size = 3
    /\ Node(tree, 1).abb.has /\ Node(tree, 1).visible
    /\ Node(tree, 1).children = <<2>> /\ Node(tree, 2).children = <<3>>
    /\ Node(tree, 2).visible /\ ~Node(tree, 2).abb.has
    /\ Node(tree, 3).visible /\ Node(tree, 3).abb.has
    /\ CssReached(imagesMap, tree, 3)

(***************************************************************************)
(* C7.  Calls with the same inputs return the same outputs, in whatever    *)
(* order and number they are made: every generateHtmlFromFrame result      *)
(* equals the first one and every generateCssFromFrame result, z-index     *)
(* values included, equals the first one.  (The tree and the image map are *)
(* the same throughout: no statement of either generator assigns to them.) *)
(***************************************************************************)
C7_SameOutputs ==
    /\ \A k \in DOMAIN html : html[k] = html[1]
    /\ \A k \in DOMAIN css : css[k] = css[1]

\* both generators have been called MaxCalls times on a tree with several rules
C7_Witness ==
    /\ Len(html) = MaxCalls /\ Len(css) = MaxCalls
    /\ MaxCalls >= 2
    /\ zCounter >= 2

(***************************************************************************)
(* C9.  Every generator call and every collapse scan ends: a call enters   *)
(* each node at most once, a scan takes at most one entry per descendant   *)
(* of the scanned node off its stack, every scan that starts comes to its  *)
(* answer (its stack is empty, or it has met a visible descendant that is  *)
(* vector-like or image-filled and returns with the rest of the stack      *)
(* unread), and the call returns.                                          *)
(***************************************************************************)
ScanEnded == scan.state \in {"yes", "no"}

C9_Bounded ==
    /\ \A i \in DOMAIN visits : visits[i] <= 1
    /\ scan.state # "none" =>
          /\ work # <<>>
          /\ scan.pops <= Cardinality(Descendants(tree, work[Len(work)].node))
    /\ scan.state = "no" => scan.stack = <<>>

C9_Terminates ==
    /\ []C9_Bounded
    /\ (scan.state = "run") ~> ScanEnded
    /\ <>(run = "done")

\* a scan has returned true with entries still on its stack
C9_Witness == scan.state = "yes" /\ scan.stack # <<>> /\ scan.pops >= 1

\* C9 as stated, in the form a finite run settles: no node is entered twice,
\* and a scan that has ended has emptied its work stack
C9_StackEmpties ==
    /\ \A i \in DOMAIN visits : visits[i] <= 1
    /\ ScanEnded => scan.stack = <<>>

(***************************************************************************)
(* C10.  A screen whose export had a failed fetch (the file fetch, or the  *)
(* screen's own node-detail or image-URL fetch, rejected or came back      *)
(* without the field the code reads) gets no generator call and no file.   *)
(***************************************************************************)
Failed(f) == f.outcome \in {"reject", "bad"}
FetchesOf(k) ==
    {j \in DOMAIN fetches : fetches[j].kind = "file" \/ fetches[j].screen = k}

C10_NoCoreAfterFailedFetch ==
    \A k \in DOMAIN screens :
        (\E j \in FetchesOf(k) : Failed(fetches[j])) =>
            /\ \A c \in DOMAIN calls : calls[c].screen # k
            /\ \A d \in DOMAIN downloads : downloads[d].screen # k

(***************************************************************************)
(* C11.  With a valid URL, a token and every fetch succeeding, handleSubmit*)
(* calls each generator exactly once per exported screen, both with the    *)
(* same frame node and the same image map, and only once the screen's      *)
(* node-detail and image-URL fetches have settled; busy is true while the  *)
(* run awaits a fetch and false once the run has ended.                    *)
(***************************************************************************)
AllFetchesOk == \A j \in DOMAIN fetches : ~Failed(fetches[j])
CallsOf(fn, k) == {c \in DOMAIN calls : calls[c].fn = fn /\ calls[c].screen = k}
\* the screens the loop has finished with
Exported == {k \in DOMAIN screens : k < cur \/ pc = "done"}

C11_OncePerScreen ==
    /\ pc \in {"file", "nodes", "images"} => busy
    /\ pc = "done" => ~busy
    /\ AllFetchesOk =>
          /\ alerts = <<>> =>
                \A k \in Exported :
                    /\ Cardinality(CallsOf("generateHtmlFromFrame", k)) = 1
                    /\ Cardinality(CallsOf("generateCssFromFrame", k)) = 1
          /\ \A c, d \in DOMAIN calls :
                calls[c].screen = calls[d].screen =>
                    /\ calls[c].frameNode = calls[d].frameNode
                    /\ calls[c].imagesMap = calls[d].imagesMap
          /\ \A c \in DOMAIN calls :
                /\ \E j \in DOMAIN fetches :
                      /\ fetches[j].kind = "nodes"
                      /\ fetches[j].screen = calls[c].screen
                      /\ fetches[j].outcome = "ok"
                /\ \A j \in DOMAIN fetches :
                      fetches[j].screen = calls[c].screen => fetches[j].outcome = "ok"

\* a run over MaxScreens screens has ended, every fetch succeeded, and the
\* generators were given a non-empty image map
C11_Witness ==
    /\ pc = "done" /\ AllFetchesOk /\ alerts = <<>>
    /\ Len(screens) = MaxScreens
    /\ Len(calls) = 2 * MaxScreens
    /\ \E c \in DOMAIN calls : DOMAIN calls[c].imagesMap # {}
    /\ \E j \in DOMAIN fetches : fetches[j].kind = "images"

(***************************************************************************)
(* C12.  When the entered text is not a valid Figma URL (it does not parse,*)
(* its host is not figma.com or a subdomain of it, or its path has no      *)
(* segment of 22 letters and digits), handleSubmit raises the alert        *)
(* 'Enter a valid Figma URL.' and stops: no fetch, busy never set, no      *)
(* generator call, no download.                                            *)
(***************************************************************************)
IsFigmaHost(h) == h = FigmaCom \/ EndsWith(h, <<".">> \o FigmaCom)
NotAFigmaUrl(url) ==
    \/ ~url.parses
    \/ ~IsFigmaHost(url.host)
    \/ \A k \in DOMAIN url.path : ~IsKey(url.path[k])
Blocked ==
    /\ alerts = <<"Enter a valid Figma URL.">>
    /\ fetches = <<>>
    /\ ~busy
    /\ calls = <<>>
    /\ downloads = <<>>

C12_InvalidUrlBlocked == (pc # "idle" /\ NotAFigmaUrl(input)) => Blocked

(***************************************************************************)
(* C13.  In every style sheet, the node rules come in depth-first          *)
(* pre-order of the visited nodes, children in their original order, and   *)
(* the k-th of them has z-index k: values rise strictly, none is reused or *)
(* skipped, and nodes that are pruned (invisible subtrees, descendants of  *)
(* a collapsed node) take none.                                            *)
(***************************************************************************)
\* the visited nodes, parent before children, children in their order
RECURSIVE PreOrder(_, _, _)
PreOrder(t, m, i) ==
    IF ~Node(t, i).visible THEN <<>>
    ELSE IF CollapsedAt(m, t, i) THEN <<i>>
    ELSE <<i>> \o Flatten([k \in DOMAIN Node(t, i).children |->
                              PreOrder(t, m, Node(t, i).children[k])])

IsNodeRule(r) == r.node # 0
NodeRules(c) == SelectSeq(c, IsNodeRule)

C13_StackingOrder ==
    LET order == PreOrder(tree, imagesMap, 1)
    IN  \A c \in DOMAIN css :
            LET rules == NodeRules(css[c])
            IN  /\ Len(rules) = Len(order)
                /\ \A k \in DOMAIN rules :
                      /\ rules[k].node = order[k]
                      /\ rules[k].props["z-index"] = k

\* a second style sheet of a tree where a rule follows a pruned node: an
\* invisible node, or the child of a collapsed one
C13_Witness ==
    /\ Len(css) = MaxCalls
    /\ LET order == PreOrder(tree, imagesMap, 1)
       IN  /\ Len(order) >= 2
           /\ \E i \in Nodes(tree) : i < order[Len(order)] /\ i \notin Range(order)
           /\ NodeRules(css[MaxCalls])[Len(order)].props["z-index"] = Len(order)

(***************************************************************************)
(* C14.  The root's rule has position relative.  Every other visited node  *)
(* that has a box has position absolute, left and top the rounded offsets  *)
(* of its box from the box of its nearest ancestor that has one (its       *)
(* parent, when the parent has a box), and width and height from its own   *)
(* box.                                                                    *)
(***************************************************************************)
PlacedFrom(r, abb, o) ==
    /\ r.props["position"] = "absolute"
    /\ "left" \in DOMAIN r.props /\ r.props["left"] = MathRound(abb.x - o.x)
    /\ "top" \in DOMAIN r.props /\ r.props["top"] = MathRound(abb.y - o.y)
    /\ r.props["width"] = MathRound(abb.width)
    /\ r.props["height"] = MathRound(abb.height)

C14_Placement ==
    CssCalled =>
        /\ \A k \in RulesOf(LastCss, 1) : LastCss[k].props["position"] = "relative"
        /\ \A i \in Nodes(tree) \ {1} :
              (CssReached(imagesMap, tree, i) /\ Node(tree, i).abb.has) =>
                  /\ RulesOf(LastCss, i) # {}
                  /\ \A k \in RulesOf(LastCss, i) :
                        /\ BoxedAncestors(tree, i) # {}
                        /\ PlacedFrom(LastCss[k], Node(tree, i).abb,
                                      Node(tree, NearestBoxed(tree, i)).abb)

(***************************************************************************)
(* C15.  In the markup, a visited node that is not collapsed, has an       *)
(* image-map entry and is vector-like or has no visible child (no child at *)
(* all, or only invisible ones) is one img element with the mapped URL,    *)
(* and none of its descendants has an element.                             *)
(***************************************************************************)
NoVisibleChild(t, i) == \A c \in Range(Node(t, i).children) : ~Node(t, c).visible

C15_ImageReference ==
    HtmlCalled =>
        \A i \in Nodes(tree) :
            ( /\ HtmlReached(imagesMap, tree, i)
              /\ ~CollapsedAt(imagesMap, tree, i)
              /\ HasEntry(imagesMap, tree, i)
              /\ (IsVectorLike(Node(tree, i)) \/ NoVisibleChild(tree, i)) ) =>
                /\ Cardinality(ElementsOf(LastHtml, i)) = 1
                /\ \A k \in ElementsOf(LastHtml, i) :
                      /\ LastHtml[k].kind = "img"
                      /\ LastHtml[k].arg = Lookup(imagesMap, Node(tree, i).id)
                /\ \A d \in Descendants(tree, i) : ElementsOf(LastHtml, d) = {}

(***************************************************************************)
(* C16.  In the style sheet, every visited node that has an image-map      *)
(* entry and is not collapsed, TEXT nodes included, has a rule whose       *)
(* background-image is the mapped URL with background-size cover, and the  *)
(* rule has no background resolved from the node's fills.                  *)
(***************************************************************************)
ShowsImage(r, url) ==
    /\ "background-image" \in DOMAIN r.props
    /\ r.props["background-image"] = UrlRef(url)
    /\ r.props["background-size"] = "cover"
    /\ "background" \notin DOMAIN r.props

C16_BackgroundImage ==
    CssCalled =>
        \A i \in Nodes(tree) :
            ( /\ CssReached(imagesMap, tree, i)
              /\ HasEntry(imagesMap, tree, i)
              /\ ~CollapsedAt(imagesMap, tree, i) ) =>
                /\ RulesOf(LastCss, i) # {}
                /\ \A k \in RulesOf(LastCss, i) :
                      ShowsImage(LastCss[k], Lookup(imagesMap, Node(tree, i).id))

(***************************************************************************)
(* C17.  shouldTreatAsSingleContainer(node) is true exactly when the node  *)
(* is a GROUP, COMPONENT, INSTANCE or COMPONENT_SET, its box is at most    *)
(* 128 by 128 pixels, and some descendant reachable through visible        *)
(* descendants is vector-like or has a visible IMAGE fill; and a scan that *)
(* takes the pending nodes in any order gives the same answer.             *)
(***************************************************************************)
\* the answers of the scan when each turn may take any pending node
RECURSIVE ScanAnswers(_, _)
ScanAnswers(t, pending) ==
    IF pending = {} THEN {FALSE}
    ELSE UNION {LET n == Node(t, d)
                IN  IF ~n.visible THEN ScanAnswers(t, pending \ {d})
                    ELSE IF IsVectorLike(n) \/ HasVisibleImageFill(n) THEN {TRUE}
                    ELSE ScanAnswers(t, (pending \ {d}) \cup Range(n.children)) :
                d \in pending}

C17_CollapsePredicate ==
    \A i \in Nodes(tree) :
        /\ shouldTreatAsSingleContainer(tree, i) = CollapsePredicate(tree, i)
        /\ ScanGate(Node(tree, i)) =>
              ScanAnswers(tree, Range(Node(tree, i).children))
                  = {shouldTreatAsSingleContainer(tree, i)}

\* the markup shows a collapsed root whose box is exactly 128 pixels wide and whose
\* evidence is a grandchild, below a visible child that is none
C17_Witness ==
    /\ HtmlCalled
    /\ tree.size = 3
    /\ Node(tree, 1).children = <<2>> /\ Node(tree, 2).children = <<3>>
    /\ Node(tree, 1).abb.has /\ Node(tree, 1).abb.width = IconMaxPx * PxUnits
    /\ Node(tree, 2).visible /\ ~IsVectorLike(Node(tree, 2))
    /\ shouldTreatAsSingleContainer(tree, 1)
    /\ \E k \in ElementsOf(LastHtml, 1) : LastHtml[k].kind = "empty"

(***************************************************************************)
(* C18.  The ids collectIds gathers for a frame, which are the keys asked  *)
(* of the image service, are the ids of the nodes reachable through        *)
(* visible nodes that are vector-like, have a visible IMAGE fill, or       *)
(* satisfy the collapse predicate; so a group the generators could         *)
(* collapse is among the keys.                                             *)
(***************************************************************************)
ImageWorthy(t) ==
    {Node(t, i).id : i \in {j \in VisibleReachable(t) :
                               \/ IsVectorLike(Node(t, j))
                               \/ HasVisibleImageFill(Node(t, j))
                               \/ CollapsePredicate(t, j)}}

\* handleSubmit has called collectIds on the frame
IdsCollected == calls # <<>> \/ \E j \in DOMAIN fetches : fetches[j].kind = "images"

C18_KeysAreImageWorthy == IdsCollected => collectIds(tree, 1, {}) = ImageWorthy(tree)

====
